---- MODULE Spec2Model ----
(***************************************************************************)
(* A model of the sales-leaderboard bot in src/main.py: the leaderboard    *)
(* aggregation (process_leaderboard_data, process_team_leaderboard_data),  *)
(* the team cache and its refresh, the slash commands and the timer-driven *)
(* tasks.                                                                  *)
(*                                                                         *)
(* Time is counted in ticks, TicksPerDay ticks to a day; tick 0 is         *)
(* midnight (UTC) of day 0.  Premiums are whole numbers.                   *)
(***************************************************************************)
EXTENDS Integers, Sequences, FiniteSets, TLC

VARIABLES
    records,      \* the main worksheet: a sequence of rows (column name -> cell)
    columns,      \* the header of the main worksheet: the set of column names
    now,          \* the clock, in ticks
    period,       \* the period of the last aggregation call
    result,       \* what process_leaderboard_data returned last
    teamResult,   \* what process_team_leaderboard_data returned last
    teamsSheet,   \* get_all_values() of the teams worksheet, header row first
    heap,         \* the dict objects alive: object id -> entries, in insertion order
    cacheRef,     \* the object the global TEAMS_AND_ROLES_CACHE names
    fetching,     \* the callers whose fetch_teams_and_roles_from_sheet_async is in flight
    loops,        \* each tasks.loop: "off", "waiting", "running" or "stopped"
    daily,        \* daily_leaderboard_post: "idle", or "fetching" (awaiting the read)
    post,         \* the run of run_daily_team_leaderboards_post
    inter,        \* the interaction being served
    posting,      \* POSTING_CHANNEL_ID: "unset", "unknown" (no such channel) or "ok"
    last          \* what the last step of a handler did

aggVars == <<records, columns, now, period, result, teamResult>>
botVars == <<teamsSheet, heap, cacheRef, fetching, loops, daily, post, inter, posting, last>>
vars == <<aggVars, botVars>>

(***************************************************************************)
(* Bounds of the model.                                                    *)
(***************************************************************************)
TicksPerDay == 2
MaxDay == 6
MaxRows == 3
MaxWindowRows == 2
MaxSellers == 22
MaxStoreRows == 1
MaxSales == 2

(***************************************************************************)
(* The calendar.  Day 0 is Thursday 2024-05-30 (weekday 3); the first of   *)
(* May 2024 is day -29, the first of June day 2, the first of July day 32. *)
(* Monday 2024-06-03 is day 4, Tuesday 2024-06-04 day 5.                   *)
(***************************************************************************)
Calendar == [epochWeekday |-> 3, monthStarts |-> {-29, 2, 32}]

MaxOf(S) == CHOOSE x \in S : \A y \in S : y <= x

DayOf(t) == t \div TicksPerDay

\* Timestamp.weekday(): Monday is 0.
Weekday(t) == (DayOf(t) + Calendar.epochWeekday) % 7

\* Timestamp.day: the day of the month, from 1.
DayOfMonth(t) ==
    DayOf(t) - MaxOf({s \in Calendar.monthStarts : s <= DayOf(t)}) + 1

\* Timestamp.normalize(): the midnight of the timestamp's day.
Normalize(t) == DayOf(t) * TicksPerDay

\* now - pd.Timedelta(days=n)
MinusDays(t, n) == t - n * TicksPerDay

\* Timestamp.replace(day=1): same time of day, first day of the month.
ReplaceDay1(t) == MinusDays(t, DayOfMonth(t) - 1)

(***************************************************************************)
(* Cells and their conversions.  A Date cell holds a timestamp or text     *)
(* that is no date; a Premium cell holds a number or text that is no       *)
(* number; a User ID cell holds an integer id or is blank.                 *)
(***************************************************************************)
NA == [na |-> TRUE, v |-> 0]
Val(x) == [na |-> FALSE, v |-> x]

\* pd.to_datetime(..., errors='coerce'): NaT for what does not parse.
ToDatetime(cell) == IF cell.kind = "ts" THEN Val(cell.v) ELSE NA

\* pd.to_numeric(..., errors='coerce'): NaN for what does not parse.
ToNumeric(cell) == IF cell.kind = "num" THEN Val(cell.v) ELSE NA

\* The decimal text of the integer ids of the model, in lexicographic order.
IdText == <<"101", "102", "103", "104", "105", "106", "107", "108", "109",
            "110", "111", "112", "113", "114", "115", "116", "117", "118",
            "119", "120", "121", "122", "123", "124", "125", "126">>

\* Series.astype(str): an integer id becomes its text, a blank cell stays ''.
AsStr(cell) == IF cell.kind = "int" THEN IdText[cell.v] ELSE ""

NameOrder == <<"Al", "Bo">>
TeamOrder == <<"Blue", "Red">>

\* The rank of a string in a sorted list of strings ('' sorts first).
StrRank(s, order) ==
    IF s = "" THEN 0 ELSE CHOOSE i \in 1..Len(order) : order[i] = s

(***************************************************************************)
(* Sequence helpers.                                                       *)
(***************************************************************************)
RECURSIVE SumPremium(_)
SumPremium(df) ==
    IF df = <<>> THEN 0 ELSE Head(df)["Premium"].v + SumPremium(Tail(df))

Range(s) == {s[i] : i \in 1..Len(s)}

\* DataFrame.head(n)
HeadN(df, n) == IF Len(df) <= n THEN df ELSE SubSeq(df, 1, n)

\* sort_values('TotalPremium', ascending=False): a stable descending sort.
InsertDesc(sorted, e) ==
    LET k == Cardinality({i \in 1..Len(sorted) :
                            sorted[i].TotalPremium >= e.TotalPremium})
    IN  SubSeq(sorted, 1, k) \o <<e>> \o SubSeq(sorted, k + 1, Len(sorted))

\* The sort without ascending=False.
InsertAsc(sorted, e) ==
    LET k == Cardinality({i \in 1..Len(sorted) :
                            sorted[i].TotalPremium <= e.TotalPremium})
    IN  SubSeq(sorted, 1, k) \o <<e>> \o SubSeq(sorted, k + 1, Len(sorted))

RECURSIVE SortValuesAsc(_)
SortValuesAsc(df) ==
    IF df = <<>> THEN <<>>
    ELSE InsertAsc(SortValuesAsc(SubSeq(df, 1, Len(df) - 1)), df[Len(df)])

RECURSIVE SortValuesDesc(_)
SortValuesDesc(df) ==
    IF df = <<>> THEN <<>>
    ELSE InsertDesc(SortValuesDesc(SubSeq(df, 1, Len(df) - 1)), df[Len(df)])

\* reset_index(drop=True): the index becomes 0, 1, 2, ...
ResetIndex(df) == [i \in 1..Len(df) |-> [df[i] EXCEPT !.index = i - 1]]

\* index += 1
ShiftIndex(df) == [i \in 1..Len(df) |-> [df[i] EXCEPT !.index = @ + 1]]

(***************************************************************************)
(* What an aggregation call does: it returns a frame or raises KeyError.   *)
(***************************************************************************)
EmptyFrame == <<>>
Returned(frame) == [raised |-> FALSE, frame |-> frame, called |-> TRUE]
RaisedKeyError == [raised |-> TRUE, frame |-> <<>>, called |-> TRUE]
\* No call yet.
NotCalled == [raised |-> FALSE, frame |-> <<>>, called |-> FALSE]

\* pd.DataFrame(records).columns
FrameColumns(recs) == UNION {DOMAIN recs[i] : i \in 1..Len(recs)}

\* The lower bound of a period's window.
StartDate(p, t) ==
    CASE p = "today" -> Normalize(t)
      [] p = "week"  -> Normalize(MinusDays(t, Weekday(t)))
      [] p = "month" -> Normalize(ReplaceDay1(t))

\* The filter with > for >=.
FilterPeriodStrict(df, p, t) ==
    IF p \in {"today", "week", "month"}
    THEN SelectSeq(df, LAMBDA r : r["Date"].v > StartDate(p, t))
    ELSE df

\* df[df['Date'] >= start_date], or df itself for any other period.
FilterPeriod(df, p, t) ==
    IF p \in {"today", "week", "month"}
    THEN SelectSeq(df, LAMBDA r : r["Date"].v >= StartDate(p, t))
    ELSE df

(***************************************************************************)
(* process_leaderboard_data                                                *)
(***************************************************************************)
LeaderboardCap == 20

\* Lines 100-104: coerce Date, Premium and User ID, drop the rows that have
\* a NaT or NaN, then the rows whose User ID is ''.
CleanIndividual(recs) ==
    LET coerced == [i \in 1..Len(recs) |->
                      [recs[i] EXCEPT !["Date"] = ToDatetime(@),
                                      !["Premium"] = ToNumeric(@),
                                      !["User ID"] = AsStr(@)]]
        dropped == SelectSeq(coerced,
                      LAMBDA r : ~r["Date"].na /\ ~r["Premium"].na)
    IN  SelectSeq(dropped, LAMBDA r : r["User ID"] # "")

UserKey(r) == <<r["User ID"], r["Name"]>>

UserKeyBefore(a, b) ==
    \/ StrRank(a[1], IdText) < StrRank(b[1], IdText)
    \/ /\ a[1] = b[1]
       /\ StrRank(a[2], NameOrder) < StrRank(b[2], NameOrder)

RECURSIVE SortedUserKeys(_)
SortedUserKeys(K) ==
    IF K = {} THEN <<>>
    ELSE LET m == CHOOSE k \in K : \A o \in K : o = k \/ UserKeyBefore(k, o)
         IN  <<m>> \o SortedUserKeys(K \ {m})

\* groupby(['User ID', 'Name']).agg(sum, count).reset_index(): one row per
\* key, in key order.
GroupByUser(df) ==
    LET keys == SortedUserKeys({UserKey(r) : r \in Range(df)})
    IN  [i \in 1..Len(keys) |->
           LET rows == SelectSeq(df, LAMBDA r : UserKey(r) = keys[i])
           IN  [index |-> i - 1, id |-> keys[i][1], Name |-> keys[i][2],
                TotalPremium |-> SumPremium(rows), SaleCount |-> Len(rows)]]

\* Lines 128-130.
RankLeaderboard(leaderboard) ==
    ShiftIndex(ResetIndex(HeadN(SortValuesDesc(leaderboard), LeaderboardCap)))

RequiredCols == {"Date", "User ID", "Name", "Premium", "Team"}

process_leaderboard_data(recs, p, t) ==
    IF recs = <<>> THEN Returned(EmptyFrame)
    ELSE IF ~(RequiredCols \subseteq FrameColumns(recs))
    THEN Returned(EmptyFrame)
    ELSE LET df_filtered == FilterPeriod(CleanIndividual(recs), p, t)
         IN  IF df_filtered = <<>> THEN Returned(EmptyFrame)
             ELSE Returned(RankLeaderboard(GroupByUser(df_filtered)))

(***************************************************************************)
(* process_team_leaderboard_data                                           *)
(***************************************************************************)
TeamRequiredCols == {"Date", "Premium", "Team"}

\* Lines 160-163: coerce Date and Premium, drop the rows that have a NaT or
\* NaN, then the rows whose Team is ''.  The User ID is not looked at.
CleanTeam(recs) ==
    LET coerced == [i \in 1..Len(recs) |->
                      [recs[i] EXCEPT !["Date"] = ToDatetime(@),
                                      !["Premium"] = ToNumeric(@)]]
        dropped == SelectSeq(coerced,
                      LAMBDA r : ~r["Date"].na /\ ~r["Premium"].na)
    IN  SelectSeq(dropped, LAMBDA r : r["Team"] # "")

RECURSIVE SortedTeamKeys(_)
SortedTeamKeys(K) ==
    IF K = {} THEN <<>>
    ELSE LET m == CHOOSE k \in K : \A o \in K :
                     StrRank(k, TeamOrder) <= StrRank(o, TeamOrder)
         IN  <<m>> \o SortedTeamKeys(K \ {m})

GroupByTeam(df) ==
    LET keys == SortedTeamKeys({r["Team"] : r \in Range(df)})
    IN  [i \in 1..Len(keys) |->
           LET rows == SelectSeq(df, LAMBDA r : r["Team"] = keys[i])
           IN  [index |-> i - 1, Team |-> keys[i],
                TotalPremium |-> SumPremium(rows), SaleCount |-> Len(rows)]]

\* Lines 187-189: no head().
RankTeamLeaderboard(team_leaderboard) ==
    ShiftIndex(ResetIndex(SortValuesDesc(team_leaderboard)))

\* The loop of lines 156-158 only prints: a missing column makes the first
\* use of it (lines 160-162) raise KeyError.
process_team_leaderboard_data(recs, p, t) ==
    IF recs = <<>> THEN Returned(EmptyFrame)
    ELSE IF ~(TeamRequiredCols \subseteq FrameColumns(recs))
    THEN RaisedKeyError
    ELSE LET df_filtered == FilterPeriod(CleanTeam(recs), p, t)
         IN  IF df_filtered = <<>> THEN Returned(EmptyFrame)
             ELSE Returned(RankTeamLeaderboard(GroupByTeam(df_filtered)))

(***************************************************************************)
(* The rows of the main worksheet.                                         *)
(***************************************************************************)
AllCols == {"Date", "User ID", "Name", "Premium", "Team"}

TsCell(t) == [kind |-> "ts", v |-> t]
TextCell == [kind |-> "text", v |-> 0]
NumCell(n) == [kind |-> "num", v |-> n]
IntCell(n) == [kind |-> "int", v |-> n]
BlankCell == [kind |-> "blank", v |-> 0]

MakeRow(d, u, n, p, t) ==
    [c \in AllCols |->
        CASE c = "Date" -> d
          [] c = "User ID" -> u
          [] c = "Name" -> n
          [] c = "Premium" -> p
          [] c = "Team" -> t]

\* A row as get_all_records returns it under a header: only the header's
\* columns are keys.
UnderHeader(row, header) == [c \in header |-> row[c]]

\* The display name and the team of the users of the model: users 1 and 3
\* share a display name and a team.
DisplayName == <<"Al", "Bo", "Al">>
TeamOf == <<"Red", "Blue", "Red">>

\* The row on_submit appends (lines 234-240) for user u, premium p, at t.
SaleRow(t, u, p, team) ==
    MakeRow(TsCell(t), IntCell(u), DisplayName[((u - 1) % 3) + 1], NumCell(p), team)

Periods == {"today", "week", "month", "full"}

(***************************************************************************)
(* The team cache.  A dict is a sequence of entries in insertion order,    *)
(* one per key.  The global names an object of the heap; a refresh binds   *)
(* the global to a new object.                                             *)
(***************************************************************************)
TeamHeader == <<"Team", "Role ID", "Channel ID">>

\* The teams worksheets of the model: two teams, rows that are not usable (a
\* blank role, a short row), and the two teams in the other order, one with
\* another role.
TeamSheets ==
    { <<TeamHeader, <<"Red", "r1", "11">>, <<"Blue", "r2", "12">> >>,
      <<TeamHeader, <<"Blue", "", "12">>, <<"Red">> >>,
      <<TeamHeader, <<"Blue", "r3", "12">>, <<"Red", "r1", "11">> >> }

\* d[k] = v on a dict: a new key goes last, a known key keeps its place.
DictSet(d, k, v) ==
    IF \E i \in 1..Len(d) : d[i].name = k
    THEN [i \in 1..Len(d) |-> IF d[i].name = k THEN v ELSE d[i]]
    ELSE Append(d, v)

\* row and len(row) > 2 and row[0] and row[1] and row[2]
UsableTeamRow(row) ==
    /\ Len(row) > 2
    /\ row[1] # ""
    /\ row[2] # ""
    /\ row[3] # ""

\* The comprehension of lines 66-69 over all_values[1:].
RECURSIVE BuildCache(_, _)
BuildCache(rows, d) ==
    IF rows = <<>> THEN d
    ELSE LET row == Head(rows)
         IN  BuildCache(Tail(rows),
                IF UsableTeamRow(row)
                THEN DictSet(d, row[1],
                        [name |-> row[1], role |-> row[2], channel |-> row[3]])
                ELSE d)

\* all_values[1:]
AfterHeader(all_values) ==
    IF all_values = <<>> THEN <<>> ELSE Tail(all_values)

\* A fetch that keeps the cache it finds when it has nothing to put in it.
FetchedCacheKeepingStale(outcome, all_values) ==
    IF outcome = "ok" /\ BuildCache(AfterHeader(all_values), <<>>) # <<>>
    THEN BuildCache(AfterHeader(all_values), <<>>)
    ELSE heap[cacheRef]

\* What a fetch leaves in the cache: lines 63-79.  outcome is "ok" or the
\* exception get_all_values raised.
FetchedCache(outcome, all_values) ==
    IF outcome = "ok"
    THEN LET new_cache == BuildCache(AfterHeader(all_values), <<>>)
         IN  IF new_cache # <<>> THEN new_cache ELSE <<>>
    ELSE <<>>

\* The refresh that clears and refills the object the global names.
UpdateInPlace(h, ref, held, value) ==
    [heap |-> [h EXCEPT ![ref] = value], ref |-> ref]

\* TEAMS_AND_ROLES_CACHE = value: the global is bound to a new object; the
\* objects nothing refers to any more are freed.  held is the set of objects
\* a running iteration still refers to.
Rebind(h, ref, held, value) ==
    LET id == CHOOSE i \in 1..(Cardinality(held) + 1) : i \notin held
    IN  [heap |-> [o \in held \cup {id} |-> IF o = id THEN value ELSE h[o]],
         ref |-> id]

\* get_teams_from_cache(): the keys of the object the global names.
get_teams_from_cache(h, ref) == [i \in 1..Len(h[ref]) |-> h[ref][i].name]

\* TEAMS_AND_ROLES_CACHE.get(team_name, {}).get('role')
RoleOf(h, ref, team_name) ==
    IF \E i \in 1..Len(h[ref]) : h[ref][i].name = team_name
    THEN (CHOOSE e \in Range(h[ref]) : e.name = team_name).role
    ELSE ""

(***************************************************************************)
(* Messages.  A section is a title with the lines of a frame, or with the  *)
(* placeholder when the frame is empty.                                    *)
(***************************************************************************)
\* format_leaderboard_section
format_leaderboard_section(title, leaderboard_df) ==
    IF leaderboard_df = <<>>
    THEN [title |-> title, placeholder |-> TRUE, lines |-> <<>>]
    ELSE [title |-> title, placeholder |-> FALSE,
          lines |-> [i \in 1..Len(leaderboard_df) |->
                       [rank |-> leaderboard_df[i].index,
                        mention |-> leaderboard_df[i].id,
                        premium |-> leaderboard_df[i].TotalPremium,
                        count |-> leaderboard_df[i].SaleCount]]]

\* format_team_leaderboard_section: the role of the cache, or the team name.
format_team_leaderboard_section(title, leaderboard_df, h, ref) ==
    IF leaderboard_df = <<>>
    THEN [title |-> title, placeholder |-> TRUE, lines |-> <<>>]
    ELSE [title |-> title, placeholder |-> FALSE,
          lines |-> [i \in 1..Len(leaderboard_df) |->
                       [rank |-> leaderboard_df[i].index,
                        mention |-> IF RoleOf(h, ref, leaderboard_df[i].Team) # ""
                                    THEN RoleOf(h, ref, leaderboard_df[i].Team)
                                    ELSE leaderboard_df[i].Team,
                        premium |-> leaderboard_df[i].TotalPremium,
                        count |-> leaderboard_df[i].SaleCount]]]

Msg(to, kind, sections) == [to |-> to, kind |-> kind, sections |-> sections]

\* Lines 389-406: the three sections of the daily post.
DailyContent(recs, t) ==
    << format_leaderboard_section("today", process_leaderboard_data(recs, "today", t).frame),
       format_leaderboard_section("week", process_leaderboard_data(recs, "week", t).frame),
       format_leaderboard_section("month", process_leaderboard_data(recs, "month", t).frame) >>

\* The post that is skipped when no section has an entry.
DailySendsSkippingEmpty(recs, t) ==
    IF \A k \in 1..3 : DailyContent(recs, t)[k].placeholder
    THEN <<>>
    ELSE <<Msg("posting", "daily", DailyContent(recs, t))>>

\* Line 408: the content is sent to the posting channel, whatever it holds.
DailySends(recs, t) == <<Msg("posting", "daily", DailyContent(recs, t))>>

\* Lines 344-358: the three team sections, the mentions from the cache.
TeamsContent(recs, t, h, ref) ==
    << format_team_leaderboard_section("today",
          process_team_leaderboard_data(recs, "today", t).frame, h, ref),
       format_team_leaderboard_section("week",
          process_team_leaderboard_data(recs, "week", t).frame, h, ref),
       format_team_leaderboard_section("month",
          process_team_leaderboard_data(recs, "month", t).frame, h, ref) >>

\* What a read or a write of the store may do: succeed, raise
\* gspread.exceptions.APIError, or raise a connection error (an OSError).
StoreOutcomes == {"ok", "APIError", "OSError"}

\* discord.ext.tasks.Loop: an OSError of the body is retried after a backoff
\* (the loop keeps running); any other exception ends the loop for good.
LoopAfterException(exc) == IF exc = "OSError" THEN "running" ELSE "stopped"

LoopNames == {"cache", "daily", "teams"}

\* bot.get_channel(int(channel_id)) finds these channels.
KnownChannels == {"11", "12"}

IdlePost ==
    [pc |-> "idle", ref |-> 0, pos |-> 0, observed |-> <<>>, snapshot |-> <<>>,
     all_records |-> <<>>]

IdleInter == [cmd |-> "none", pc |-> "done", arg |-> "", premium |-> 0, options |-> <<>>]

\* What the last step of a handler did: the handler, the outcome of the
\* store call it resumed from ("" when none), the values a fetch of the
\* teams read, and the messages the step sent.
Did(by, outcome, input, sends) ==
    [by |-> by, outcome |-> outcome, input |-> input, sends |-> sends]

Nothing == Did("none", "", <<>>, <<>>)

\* The instant of the bot's model: day 5 (Tuesday 2024-06-04), one tick after
\* midnight.
BotNow == 5 * TicksPerDay + 1

\* The state of the module once loaded: lines 25-52.
BotInit ==
    /\ teamsSheet \in TeamSheets
    /\ heap = [o \in {1} |-> <<>>]
    /\ cacheRef = 1
    /\ fetching = {}
    /\ loops = [l \in LoopNames |-> "off"]
    /\ daily = "idle"
    /\ post = IdlePost
    /\ inter = IdleInter
    /\ posting \in {"unset", "unknown", "ok"}
    /\ last = Nothing

\* The bot of the aggregation specifications: loaded, nothing running.
BotIdle ==
    /\ teamsSheet = <<TeamHeader>>
    /\ heap = [o \in {1} |-> <<>>]
    /\ cacheRef = 1
    /\ fetching = {}
    /\ loops = [l \in LoopNames |-> "off"]
    /\ daily = "idle"
    /\ post = IdlePost
    /\ inter = IdleInter
    /\ posting = "ok"
    /\ last = Nothing

\* The objects a running iteration refers to.
Held == IF post.pc = "iterating" THEN {post.ref} ELSE {}

\* No timer body and no interaction is between two of its steps.  The daily
\* post, the team post and the interactions share the worksheet records and
\* the cache only, each reads the records once, and none of them writes the
\* cache: their steps are taken one handler after the other, while the
\* refreshes of the cache and the edits of the teams worksheet, which they
\* do race with, come between any two steps.
Quiet ==
    /\ daily = "idle"
    /\ post.pc = "idle"
    /\ inter.pc = "done"
    /\ \A l \in LoopNames : loops[l] # "off"

(***************************************************************************)
(* The teams worksheet is edited by its owner.                             *)
(***************************************************************************)
EditTeamsSheet(sheet) ==
    /\ sheet # teamsSheet
    /\ teamsSheet' = sheet
    /\ UNCHANGED <<aggVars, heap, cacheRef, fetching, loops, daily, post, inter, posting, last>>

(***************************************************************************)
(* fetch_teams_and_roles_from_sheet_async, called by on_ready, by the      *)
(* cache loop and by the task /sales creates.  The read of the worksheet   *)
(* and the resumption that builds and binds the cache are one step: the    *)
(* worksheet may hold anything at any time, so a read that is older than   *)
(* its resumption reaches no other state.                                  *)
(***************************************************************************)
\* on_ready: line 478.
OnReady ==
    /\ \A l \in LoopNames : loops[l] = "off"
    /\ fetching = {}
    /\ fetching' = {"ready"}
    /\ UNCHANGED <<aggVars, teamsSheet, heap, cacheRef, loops, daily, post, inter, posting, last>>

\* update_teams_cache_loop's tick: line 372.
CacheTick ==
    /\ loops["cache"] = "waiting"
    /\ loops' = [loops EXCEPT !["cache"] = "running"]
    /\ fetching' = fetching \cup {"loop"}
    /\ UNCHANGED <<aggVars, teamsSheet, heap, cacheRef, daily, post, inter, posting, last>>

\* The fetch of caller c resumes with the worksheet's values or an error.
\* The exception is caught (line 76): the caller goes on.  on_ready then
\* starts the three loops (lines 480-482).
FetchDone(c, outcome) ==
    /\ c \in fetching
    /\ fetching' = fetching \ {c}
    /\ LET bound == Rebind(heap, cacheRef, Held, FetchedCache(outcome, teamsSheet))
       IN  /\ heap' = bound.heap
           /\ cacheRef' = bound.ref
    /\ loops' = CASE c = "ready" -> [l \in LoopNames |-> "waiting"]
                  [] c = "loop" -> [loops EXCEPT !["cache"] = "waiting"]
                  [] OTHER -> loops
    /\ last' = Did("fetch", outcome, IF outcome = "ok" THEN teamsSheet ELSE <<>>, <<>>)
    /\ UNCHANGED <<aggVars, teamsSheet, daily, post, inter, posting>>

(***************************************************************************)
(* daily_leaderboard_post: lines 374-408.                                  *)
(***************************************************************************)
\* The loop fires.  Without a posting channel the body returns at once;
\* otherwise it awaits the read of the worksheet.
DailyTick ==
    /\ Quiet
    /\ loops["daily"] = "waiting"
    /\ IF posting = "ok"
       THEN /\ loops' = [loops EXCEPT !["daily"] = "running"]
            /\ daily' = "fetching"
            /\ last' = last
       ELSE /\ loops' = loops
            /\ daily' = "idle"
            /\ last' = Did("daily", "", <<>>, <<>>)
    /\ UNCHANGED <<aggVars, teamsSheet, heap, cacheRef, fetching, post, inter, posting>>

\* The read resumes.  With the records, the three sections are sent to the
\* channel (line 408); an exception leaves the body and reaches the loop.
DailyFetched(outcome) ==
    /\ daily = "fetching"
    /\ IF outcome = "ok"
       THEN /\ daily' = "idle"
            /\ loops' = [loops EXCEPT !["daily"] = "waiting"]
            /\ last' = Did("daily", outcome, <<>>, DailySends(records, now))
       ELSE /\ daily' = IF LoopAfterException(outcome) = "running" THEN "fetching" ELSE "idle"
            /\ loops' = [loops EXCEPT !["daily"] = LoopAfterException(outcome)]
            /\ last' = Did("daily", outcome, <<>>, <<>>)
    /\ UNCHANGED <<aggVars, teamsSheet, heap, cacheRef, fetching, post, inter, posting>>

(***************************************************************************)
(* daily_team_leaderboards_post and run_daily_team_leaderboards_post:      *)
(* lines 411-467.                                                          *)
(***************************************************************************)
PostTick ==
    /\ Quiet
    /\ loops["teams"] = "waiting"
    /\ loops' = [loops EXCEPT !["teams"] = "running"]
    /\ post' = [IdlePost EXCEPT !.pc = "fetching"]
    /\ UNCHANGED <<aggVars, teamsSheet, heap, cacheRef, fetching, daily, inter, posting, last>>

\* The read resumes (line 413).  No record: the body returns.  Otherwise
\* the for statement of line 420 takes the items of the object the global
\* names now.  An exception leaves the body and reaches the loop.
PostFetched(outcome) ==
    /\ post.pc = "fetching"
    /\ IF outcome = "ok"
       THEN IF records = <<>>
            THEN /\ post' = IdlePost
                 /\ loops' = [loops EXCEPT !["teams"] = "waiting"]
            ELSE /\ post' = [IdlePost EXCEPT !.pc = "iterating", !.ref = cacheRef,
                                             !.snapshot = heap[cacheRef],
                                             !.all_records = records]
                 /\ loops' = loops
       ELSE /\ post' = IF LoopAfterException(outcome) = "running" THEN post ELSE IdlePost
            /\ loops' = [loops EXCEPT !["teams"] = LoopAfterException(outcome)]
    /\ last' = Did("teams", outcome, <<>>, <<>>)
    /\ UNCHANGED <<aggVars, teamsSheet, heap, cacheRef, fetching, daily, inter, posting>>

\* The message of one team: lines 431-453.
TeamPostMessage(item, all_records, t) ==
    LET team_records == SelectSeq(all_records, LAMBDA r : r["Team"] = item.name)
    IN  IF team_records = <<>>
        THEN Msg(item.channel, "no sales", <<>>)
        ELSE Msg(item.channel, "team daily", DailyContent(team_records, t))

\* One turn of the for statement: the iterator yields the next item of the
\* object it was made on, the team's message is sent to the team's channel
\* when the channel is found, and the body sleeps (line 461).
PostStep ==
    /\ post.pc = "iterating"
    /\ post.pos < Len(heap[post.ref])
    /\ LET item == heap[post.ref][post.pos + 1]
       IN  /\ post' = [post EXCEPT !.pos = @ + 1, !.observed = Append(@, item)]
           /\ last' = Did("team", "", <<>>,
                          IF item.channel \in KnownChannels
                          THEN <<TeamPostMessage(item, post.all_records, now)>>
                          ELSE <<>>)
    /\ UNCHANGED <<aggVars, teamsSheet, heap, cacheRef, fetching, loops, daily, inter, posting>>

\* The iterator is exhausted: the body returns, and the object, if the
\* global names another by now, is freed.
PostEnd ==
    /\ post.pc = "iterating"
    /\ post.pos >= Len(heap[post.ref])
    /\ post' = IdlePost
    /\ heap' = [o \in {cacheRef} |-> heap[o]]
    /\ loops' = [loops EXCEPT !["teams"] = "waiting"]
    /\ UNCHANGED <<aggVars, teamsSheet, cacheRef, fetching, daily, inter, posting, last>>

(***************************************************************************)
(* The slash commands.                                                     *)
(***************************************************************************)
\* /sales: lines 302-310.  The view holds the teams of the cache as they
\* are now.
SalesCommand ==
    /\ Quiet
    /\ LET teams == get_teams_from_cache(heap, cacheRef)
       IN  IF teams = <<>>
           THEN /\ inter' = [IdleInter EXCEPT !.cmd = "sales"]
                /\ fetching' = fetching \cup {"sales"}
                /\ last' = Did("sales", "", <<>>, <<Msg("user", "teams unavailable", <<>>)>>)
           ELSE /\ inter' = [IdleInter EXCEPT !.cmd = "sales", !.pc = "view",
                                              !.options = teams]
                /\ fetching' = fetching
                /\ last' = Did("sales", "", <<>>, <<Msg("user", "select team", teams)>>)
    /\ UNCHANGED <<aggVars, teamsSheet, heap, cacheRef, loops, daily, post, posting>>

\* TeamSelect.callback: the modal opens for one of the teams of the view.
SelectTeam(team) ==
    /\ inter.pc = "view"
    /\ team \in Range(inter.options)
    /\ inter' = [inter EXCEPT !.cmd = "modal", !.pc = "open", !.arg = team]
    /\ UNCHANGED <<aggVars, teamsSheet, heap, cacheRef, fetching, loops, daily, post, posting, last>>

\* float(premium_str.replace(',', '')), rounded: the number, or ValueError (-1).
PremiumTexts == {"1,250", "abc"}
ParsePremium(text) ==
    CASE text = "100" -> 100
      [] text = "1,250" -> 1250
      [] OTHER -> -1

\* SaleEntryModal.on_submit up to the append: lines 221-243.
ModalSubmit(text) ==
    /\ inter.pc = "open"
    /\ IF ParsePremium(text) < 0
       THEN /\ inter' = [inter EXCEPT !.pc = "done"]
            /\ last' = Did("modal", "", <<>>, <<Msg("user", "enter a valid number", <<>>)>>)
       ELSE /\ inter' = [inter EXCEPT !.pc = "appending", !.premium = ParsePremium(text)]
            /\ last' = last
    /\ UNCHANGED <<aggVars, teamsSheet, heap, cacheRef, fetching, loops, daily, post, posting>>

\* The append resumes: lines 243-275.  Appended: the success message, then
\* the announcement in the posting channel, whose failure is only printed.
\* Not appended: the error notice.  (A worksheet that is full in the model
\* refuses the row with an APIError.)
ModalAppended(outcome, announced) ==
    /\ inter.pc = "appending"
    /\ outcome = "ok" => Len(records) < MaxStoreRows
    /\ IF outcome = "ok"
       THEN /\ records' = Append(records, SaleRow(now, 1, inter.premium, inter.arg))
            /\ last' = Did("modal", outcome, <<>>,
                           <<Msg("user", "success", <<>>)>> \o
                           IF posting = "ok" /\ announced
                           THEN <<Msg("posting", "new sale", <<>>)>> ELSE <<>>)
       ELSE /\ records' = records
            /\ last' = Did("modal", outcome, <<>>, <<Msg("user", "error recording", <<>>)>>)
    /\ inter' = [inter EXCEPT !.pc = "done"]
    /\ UNCHANGED <<columns, now, period, result, teamResult,
                   teamsSheet, heap, cacheRef, fetching, loops, daily, post, posting>>

\* /leaderboard: the interaction is deferred and the read awaited (line 324).
LeaderboardCommand(p) ==
    /\ Quiet
    /\ inter' = [IdleInter EXCEPT !.cmd = "leaderboard", !.pc = "fetching", !.arg = p]
    /\ UNCHANGED <<aggVars, teamsSheet, heap, cacheRef, fetching, loops, daily, post, posting, last>>

\* The read resumes: the section is sent (line 335), or the exception leaves
\* the handler, which sends nothing.
LeaderboardFetched(outcome) ==
    /\ inter.cmd = "leaderboard"
    /\ inter.pc = "fetching"
    /\ inter' = [inter EXCEPT !.pc = "done"]
    /\ last' = IF outcome = "ok"
               THEN Did("leaderboard", outcome, <<>>,
                        <<Msg("user", "leaderboard",
                              <<format_leaderboard_section(inter.arg,
                                   process_leaderboard_data(records, inter.arg, now).frame)>>)>>)
               ELSE Did("leaderboard", outcome, <<>>, <<>>)
    /\ UNCHANGED <<aggVars, teamsSheet, heap, cacheRef, fetching, loops, daily, post, posting>>

\* /teams: the interaction is deferred and the read awaited (line 342).
TeamsCommand ==
    /\ Quiet
    /\ inter' = [IdleInter EXCEPT !.cmd = "teams", !.pc = "fetching"]
    /\ UNCHANGED <<aggVars, teamsSheet, heap, cacheRef, fetching, loops, daily, post, posting, last>>

\* The read resumes: the sections are sent (line 360), or the exception (of
\* the read, or the KeyError of an aggregation) leaves the handler, which
\* sends nothing.
TeamsFetched(outcome) ==
    /\ inter.cmd = "teams"
    /\ inter.pc = "fetching"
    /\ inter' = [inter EXCEPT !.pc = "done"]
    /\ last' = IF outcome # "ok"
               THEN Did("teams command", outcome, <<>>, <<>>)
               ELSE IF process_team_leaderboard_data(records, "today", now).raised
               THEN Did("teams command", "KeyError", <<>>, <<>>)
               ELSE Did("teams command", outcome, <<>>,
                        <<Msg("user", "team leaderboards",
                              TeamsContent(records, now, heap, cacheRef))>>)
    /\ UNCHANGED <<aggVars, teamsSheet, heap, cacheRef, fetching, loops, daily, post, posting>>

(***************************************************************************)
(* Spec: the bot.  The main worksheet is empty or holds one sale of day 0  *)
(* (2024-05-30, before this week and this month).                          *)
(***************************************************************************)
Init ==
    /\ records \in {<<>>, <<SaleRow(0, 2, 50, "Blue")>>}
    /\ columns = AllCols
    /\ now = BotNow
    /\ period = "full"
    /\ result = NotCalled
    /\ teamResult = NotCalled
    /\ BotInit

Next ==
    \/ \E sheet \in TeamSheets : EditTeamsSheet(sheet)
    \/ OnReady
    \/ CacheTick
    \/ \E c \in {"ready", "loop", "sales"}, outcome \in StoreOutcomes : FetchDone(c, outcome)
    \/ DailyTick
    \/ \E outcome \in StoreOutcomes : DailyFetched(outcome)
    \/ PostTick
    \/ \E outcome \in StoreOutcomes : PostFetched(outcome)
    \/ PostStep
    \/ PostEnd
    \/ SalesCommand
    \/ \E team \in Range(TeamOrder) : SelectTeam(team)
    \/ \E text \in PremiumTexts : ModalSubmit(text)
    \/ \E outcome \in StoreOutcomes, announced \in BOOLEAN : ModalAppended(outcome, announced)
    \/ \E p \in Periods : LeaderboardCommand(p)
    \/ \E outcome \in StoreOutcomes : LeaderboardFetched(outcome)
    \/ TeamsCommand
    \/ \E outcome \in StoreOutcomes : TeamsFetched(outcome)

Spec == Init /\ [][Next]_vars

\* ---- aggregation specifications ----

(***************************************************************************)
(* SpecAgg: the worksheet is filled row by row, with well-formed and       *)
(* malformed rows, under a header that may lack a column, and /leaderboard *)
(* and /teams aggregate it.                                                *)
(***************************************************************************)
Headers == {AllCols} \cup {AllCols \ {c} : c \in AllCols}

\* The instant of SpecAgg: day 5 (Tuesday 2024-06-04), one tick after midnight.
AggNow == 5 * TicksPerDay + 1

\* Users 1 and 2 sold today at midnight, user 3 on Monday at midnight (this
\* week, not today).
AggDateOf == <<5 * TicksPerDay, 5 * TicksPerDay, 4 * TicksPerDay>>

ValidRows ==
    {SaleRow(AggDateOf[u], u, p, TeamOf[u]) : u \in 1..3, p \in {50, 100}}

\* One good row with one field spoiled: the date, the premium or the user id
\* unparseable or blank, or the team blank.
MalformedRows ==
    { MakeRow(TextCell, IntCell(1), "Al", NumCell(100), "Red"),
      MakeRow(TsCell(5 * TicksPerDay), IntCell(1), "Al", TextCell, "Red"),
      MakeRow(TsCell(5 * TicksPerDay), BlankCell, "Al", NumCell(100), "Red"),
      MakeRow(TsCell(5 * TicksPerDay), IntCell(1), "Al", NumCell(100), "") }

AggInit ==
    /\ records = <<>>
    /\ columns \in Headers
    /\ now = AggNow
    /\ period = "full"
    /\ result = NotCalled
    /\ teamResult = NotCalled
    /\ BotIdle

\* A row is added to the worksheet.
AppendRow(row) ==
    /\ Len(records) < MaxRows
    /\ records' = Append(records, UnderHeader(row, columns))
    /\ result' = NotCalled
    /\ teamResult' = NotCalled
    /\ UNCHANGED <<columns, now, period, botVars>>

\* The aggregation of /leaderboard with period p: line 325.
Leaderboard(p) ==
    /\ period' = p
    /\ result' = process_leaderboard_data(records, p, now)
    /\ teamResult' = NotCalled
    /\ UNCHANGED <<records, columns, now, botVars>>

\* One of the aggregations of /teams: lines 344-348.
TeamLeaderboard(p) ==
    /\ period' = p
    /\ teamResult' = process_team_leaderboard_data(records, p, now)
    /\ result' = NotCalled
    /\ UNCHANGED <<records, columns, now, botVars>>

AggNext ==
    \/ \E row \in ValidRows \cup MalformedRows : AppendRow(row)
    \/ \E p \in Periods : Leaderboard(p)
    \/ \E p \in Periods : TeamLeaderboard(p)

SpecAgg == AggInit /\ [][AggNext]_vars

(***************************************************************************)
(* SpecWindow: sales dated at past ticks, aggregated at any instant.       *)
(***************************************************************************)
MaxTick == (MaxDay + 1) * TicksPerDay - 1

WindowInit ==
    /\ records = <<>>
    /\ columns = AllCols
    /\ now = 0
    /\ period = "full"
    /\ result = NotCalled
    /\ teamResult = NotCalled
    /\ BotIdle

\* A sale dated t, not after now and not before the last row, is appended
\* (line 243): the worksheet is in the order of its timestamps.
AppendDated(t) ==
    /\ Len(records) < MaxWindowRows
    /\ t <= now
    /\ records # <<>> => t >= records[Len(records)]["Date"].v
    /\ records' = Append(records, SaleRow(t, 1, 100, "Red"))
    /\ result' = NotCalled
    /\ teamResult' = NotCalled
    /\ UNCHANGED <<columns, now, period, botVars>>

\* Time passes.
ClockTick ==
    /\ now < MaxTick
    /\ now' = now + 1
    /\ result' = NotCalled
    /\ teamResult' = NotCalled
    /\ UNCHANGED <<records, columns, period, botVars>>

WindowNext ==
    \/ \E t \in 0..MaxTick : AppendDated(t)
    \/ ClockTick
    \/ \E p \in Periods : Leaderboard(p)
    \/ \E p \in Periods : TeamLeaderboard(p)

SpecWindow == WindowInit /\ [][WindowNext]_vars

(***************************************************************************)
(* SpecCap: one sale after another, each by a user who has not sold yet.   *)
(***************************************************************************)
CapInit ==
    /\ records = <<>>
    /\ columns = AllCols
    /\ now = AggNow
    /\ period = "full"
    /\ result = NotCalled
    /\ teamResult = NotCalled
    /\ BotIdle

\* User Len(records) + 1 records a first sale, today.
NewSeller(p, team) ==
    /\ Len(records) < MaxSellers
    /\ records' = Append(records, SaleRow(5 * TicksPerDay, Len(records) + 1, p, team))
    /\ result' = NotCalled
    /\ teamResult' = NotCalled
    /\ UNCHANGED <<columns, now, period, botVars>>

\* The first sellers choose their premium and team; the later ones sell 50
\* for team Red.
CapNext ==
    \/ \E p \in {50, 100}, team \in {"Red", "Blue", ""} :
          /\ Len(records) < 2
          /\ NewSeller(p, team)
    \/ /\ Len(records) >= 2
       /\ NewSeller(50, "Red")
    \/ \E p \in Periods : Leaderboard(p)
    \/ \E p \in Periods : TeamLeaderboard(p)

SpecCap == CapInit /\ [][CapNext]_vars

(***************************************************************************)
(* SpecSale: the sale-entry flow, one step for each await of               *)
(* SaleEntryModal.on_submit (lines 221-275), on a bot that is ready and    *)
(* whose cache holds the two teams.  ModalAppended is these steps taken at *)
(* once.                                                                   *)
(***************************************************************************)
SaleInit ==
    /\ records = <<>>
    /\ columns = AllCols
    /\ now = BotNow
    /\ period = "full"
    /\ result = NotCalled
    /\ teamResult = NotCalled
    /\ teamsSheet = <<TeamHeader, <<"Red", "r1", "11">>, <<"Blue", "r2", "12">> >>
    /\ heap = [o \in {1} |-> BuildCache(AfterHeader(teamsSheet), <<>>)]
    /\ cacheRef = 1
    /\ fetching = {}
    /\ loops = [l \in LoopNames |-> "waiting"]
    /\ daily = "idle"
    /\ post = IdlePost
    /\ inter = IdleInter
    /\ posting \in {"unset", "unknown", "ok"}
    /\ last = Nothing

\* The row of the sale the modal is about: lines 234-240.
row_to_add == SaleRow(now, 1, inter.premium, inter.arg)

\* The error notice of the outer except: lines 273-275.
ErrorNotice == Msg("user", "error recording", <<>>)

\* An announcement that is not delivered is reported to the user.
AnnouncementReportingFailure(channel, delivered) ==
    IF channel = "ok" /\ delivered
    THEN <<Msg("posting", "new sale", <<>>)>>
    ELSE <<ErrorNotice>>

\* Lines 253-272: the embed is sent to the posting channel when the channel
\* is found; a channel that is not found and a send that raises are printed.
Announcement(channel, delivered) ==
    IF channel = "ok" /\ delivered
    THEN <<Msg("posting", "new sale", <<>>)>>
    ELSE <<>>

\* Line 243 resumes: the row is appended, or append_row raised and the outer
\* except sends the error notice (lines 273-275).
SaleAppended(outcome) ==
    /\ inter.pc = "appending"
    /\ outcome = "ok" => Len(records) < MaxSales
    /\ IF outcome = "ok"
       THEN /\ records' = Append(records, row_to_add)
            /\ inter' = [inter EXCEPT !.pc = "recorded"]
            /\ last' = Did("modal", outcome, <<>>, <<>>)
       ELSE /\ records' = records
            /\ inter' = [inter EXCEPT !.pc = "done"]
            /\ last' = Did("modal", outcome, <<>>, <<ErrorNotice>>)
    /\ UNCHANGED <<columns, now, period, result, teamResult,
                   teamsSheet, heap, cacheRef, fetching, loops, daily, post, posting>>

\* Lines 245-251: the success message is sent; without a posting channel id
\* the handler returns.  A send that raises is caught by the outer except,
\* which sends the error notice.
SuccessSent(delivered) ==
    /\ inter.pc = "recorded"
    /\ IF delivered
       THEN /\ last' = [last EXCEPT !.sends = Append(@, Msg("user", "success", <<>>))]
            /\ inter' = [inter EXCEPT !.pc = IF posting = "unset" THEN "done" ELSE "announcing"]
       ELSE /\ last' = [last EXCEPT !.sends = Append(@, ErrorNotice)]
            /\ inter' = [inter EXCEPT !.pc = "done"]
    /\ UNCHANGED <<aggVars, teamsSheet, heap, cacheRef, fetching, loops, daily, post, posting>>

\* Lines 253-272: the announcement.
Announced(delivered) ==
    /\ inter.pc = "announcing"
    /\ last' = [last EXCEPT !.sends = @ \o Announcement(posting, delivered)]
    /\ inter' = [inter EXCEPT !.pc = "done"]
    /\ UNCHANGED <<aggVars, teamsSheet, heap, cacheRef, fetching, loops, daily, post, posting>>

SaleNext ==
    \/ SalesCommand
    \/ \E team \in Range(TeamOrder) : SelectTeam(team)
    \/ \E text \in PremiumTexts : ModalSubmit(text)
    \/ \E outcome \in StoreOutcomes : SaleAppended(outcome)
    \/ \E delivered \in BOOLEAN : SuccessSent(delivered)
    \/ \E delivered \in BOOLEAN : Announced(delivered)

SpecSale == SaleInit /\ [][SaleNext]_vars

(***************************************************************************)
(* The claims.                                                             *)
(***************************************************************************)
NonIncreasing(frame) ==
    \A i \in 1..(Len(frame) - 1) : frame[i].TotalPremium >= frame[i + 1].TotalPremium

RanksFromOne(frame) == \A i \in 1..Len(frame) : frame[i].index = i

\* C1: whatever the rows and the period, the entries of the individual and of
\* the team leaderboard are in non-increasing order of TotalPremium, and the
\* rank of the i-th entry is i: the ranks are 1, 2, ..., k.
C1_SortedAndRanked ==
    /\ NonIncreasing(result.frame)
    /\ RanksFromOne(result.frame)
    /\ NonIncreasing(teamResult.frame)
    /\ RanksFromOne(teamResult.frame)

\* C1's case: three users listed, the last user by key (103) first, the
\* totals not all equal.
C1_Witness ==
    /\ result.called
    /\ Len(result.frame) = 3
    /\ result.frame[1].id = "103"
    /\ result.frame[1].TotalPremium > result.frame[3].TotalPremium

\* The window's lower bound as the claim words it: the latest midnight that
\* is not after now (today), that of a Monday (week), that of the first day
\* of a month (month).
Midnights(t) == {m \in (-31 * TicksPerDay)..t : m % TicksPerDay = 0}

ClaimedBound(p, t) ==
    CASE p = "today" -> MaxOf(Midnights(t))
      [] p = "week" ->
           MaxOf({m \in Midnights(t) :
                    ((m \div TicksPerDay) + Calendar.epochWeekday + 70) % 7 = 0})
      [] p = "month" ->
           MaxOf({m \in Midnights(t) : (m \div TicksPerDay) \in Calendar.monthStarts})

InClaimedWindow(row, p, t) == p = "full" \/ row["Date"].v >= ClaimedBound(p, t)

SaleCountOf(frame, id) ==
    IF \E i \in 1..Len(frame) : frame[i].id = id
    THEN (CHOOSE e \in Range(frame) : e.id = id).SaleCount
    ELSE 0

TeamSaleCountOf(frame, team) ==
    IF \E i \in 1..Len(frame) : frame[i].Team = team
    THEN (CHOOSE e \in Range(frame) : e.Team = team).SaleCount
    ELSE 0

\* C2: the sales counted for a user (for a team) are exactly the user's (the
\* team's) rows dated at or after the window's lower bound, the rows dated
\* exactly at the bound included; every row counts for the period "full".
C2_WindowLowerBoundInclusive ==
    /\ result.called =>
         \A i \in 1..Len(records) :
            SaleCountOf(result.frame, AsStr(records[i]["User ID"])) =
               Cardinality({j \in 1..Len(records) :
                              /\ records[j]["User ID"] = records[i]["User ID"]
                              /\ InClaimedWindow(records[j], period, now)})
    /\ teamResult.called =>
         \A i \in 1..Len(records) :
            TeamSaleCountOf(teamResult.frame, records[i]["Team"]) =
               Cardinality({j \in 1..Len(records) :
                              /\ records[j]["Team"] = records[i]["Team"]
                              /\ InClaimedWindow(records[j], period, now)})

\* C2's case: on a Wednesday, a sale dated a tick before Monday midnight and
\* one dated Monday midnight; the week's leaderboard counts one sale.
C2_Witness ==
    /\ result.called
    /\ period = "week"
    /\ now = 6 * TicksPerDay + 1
    /\ Len(records) = 2
    /\ records[1]["Date"].v = 4 * TicksPerDay - 1
    /\ records[2]["Date"].v = 4 * TicksPerDay
    /\ Len(result.frame) = 1
    /\ result.frame[1].SaleCount = 1

\* The teams that have a row the team aggregation keeps in the window.
TeamsInWindow ==
    {records[i]["Team"] : i \in {j \in 1..Len(records) :
        /\ records[j]["Team"] # ""
        /\ records[j]["Date"].kind = "ts"
        /\ records[j]["Premium"].kind = "num"
        /\ InClaimedWindow(records[j], period, now)}}

\* C3: the individual leaderboard has at most 10 entries, and the team
\* leaderboard has one entry for each team that has a row in the window.
C3_TopTenAndEveryTeam ==
    /\ result.called => Len(result.frame) <= 10
    /\ teamResult.called => Len(teamResult.frame) = Cardinality(TeamsInWindow)

Without(recs, i) == SubSeq(recs, 1, i - 1) \o SubSeq(recs, i + 1, Len(recs))

Malformed(row) ==
    \/ row["Date"].kind # "ts"
    \/ row["Premium"].kind # "num"
    \/ row["User ID"].kind # "int"

\* C4: under a full header, a row with an unparseable Date, an unparseable
\* Premium or an empty User ID changes nothing: each aggregation returns,
\* without raising, what it returns for the rows without that row.
C4_MalformedRowDropped ==
    columns = AllCols =>
      \A i \in 1..Len(records) :
         Malformed(records[i]) =>
           /\ result.called =>
                result = process_leaderboard_data(Without(records, i), period, now)
           /\ teamResult.called =>
                teamResult = process_team_leaderboard_data(Without(records, i), period, now)

\* The rows with the Team column filled with the sentinel.
WithTeamSentinel(recs) ==
    [i \in 1..Len(recs) |->
        [c \in AllCols |-> IF c = "Team" THEN "N/A" ELSE recs[i][c]]]

\* C5: when a required column is missing (Date, Premium, User ID or Name for
\* the individual leaderboard; Date, Premium or Team for the team one) the
\* aggregation returns an empty frame and does not raise; a missing Team
\* column alone leaves the individual leaderboard as it is with the Team
\* defaulted.
C5_MissingColumnIsNoData ==
    /\ (result.called /\ ~({"Date", "Premium", "User ID", "Name"} \subseteq columns)) =>
         (~result.raised /\ result.frame = <<>>)
    /\ (teamResult.called /\ ~({"Date", "Premium", "Team"} \subseteq columns)) =>
         (~teamResult.raised /\ teamResult.frame = <<>>)
    /\ (result.called /\ columns = AllCols \ {"Team"}) =>
         result = process_leaderboard_data(WithTeamSentinel(records), period, now)

\* The entries the claim expects of a fetch: one for each team name of a
\* usable row (a row with a name, a role and a channel), from the last
\* usable row of that name.
UsableAt(all_values, i) ==
    /\ i >= 2
    /\ Len(all_values[i]) >= 3
    /\ \A k \in 1..3 : all_values[i][k] # ""

ExpectedEntries(all_values) ==
    { [name |-> all_values[i][1], role |-> all_values[i][2], channel |-> all_values[i][3]] :
        i \in {j \in 1..Len(all_values) :
                 /\ UsableAt(all_values, j)
                 /\ ~\E l \in (j + 1)..Len(all_values) :
                        /\ UsableAt(all_values, l)
                        /\ all_values[l][1] = all_values[j][1]} }

\* C6: after a refresh whose fetch raised or yielded no usable row, the
\* cache is empty and get_teams_from_cache returns no name; after a refresh
\* that yielded a usable row, the cache holds exactly the fetched entries.
C6_RefreshReplacesCache ==
    last.by = "fetch" =>
       IF last.outcome # "ok" \/ ExpectedEntries(last.input) = {}
       THEN /\ heap[cacheRef] = <<>>
            /\ get_teams_from_cache(heap, cacheRef) = <<>>
       ELSE /\ Range(heap[cacheRef]) = ExpectedEntries(last.input)
            /\ Len(heap[cacheRef]) = Cardinality(ExpectedEntries(last.input))

\* C6's case: a fetch has just raised and the cache is empty, while the team
\* post still iterates the two teams the cache held.
C6_Witness ==
    /\ last.by = "fetch"
    /\ last.outcome = "APIError"
    /\ heap[cacheRef] = <<>>
    /\ post.pc = "iterating"
    /\ post.ref # cacheRef
    /\ Len(heap[post.ref]) = 2

\* C7: the items the team post's iteration has seen are the first items of
\* the cache as it was when the iteration began, and all of them once the
\* iteration is over, whatever refreshes came in between; the teams /sales
\* offers are the names of the cache.
C7_ReadersSeeOneSnapshot ==
    /\ post.pc = "iterating" =>
         /\ Len(post.observed) <= Len(post.snapshot)
         /\ post.observed = SubSeq(post.snapshot, 1, Len(post.observed))
         /\ post.pos >= Len(heap[post.ref]) => post.observed = post.snapshot
    /\ last.by = "sales" =>
         last.sends[1].sections = [i \in 1..Len(heap[cacheRef]) |-> heap[cacheRef][i].name]

\* C7's case: the iteration has seen two teams of a snapshot the cache no
\* longer holds, a refresh having bound other teams.
C7_Witness ==
    /\ post.pc = "iterating"
    /\ Len(post.observed) = 2
    /\ post.ref # cacheRef
    /\ heap[cacheRef] # <<>>
    /\ heap[cacheRef] # post.snapshot

StoreFailed == last.outcome \in {"APIError", "OSError"}

\* C8: after a store read failed in the cache refresh, in the daily post or
\* in the daily team post, the loop of that task is still running: it fires
\* at its next tick.
C8_TimerTasksSurviveStoreFailure ==
    /\ (last.by = "fetch" /\ StoreFailed) => loops["cache"] # "stopped"
    /\ (last.by = "daily" /\ StoreFailed) => loops["daily"] # "stopped"
    /\ (last.by = "teams" /\ StoreFailed) => loops["teams"] # "stopped"

\* C9: when the store call of /sales' submission, of /leaderboard or of
\* /teams failed, the user was sent a failure notice, and neither a
\* leaderboard nor a success message.
C9_CommandFailureNotice ==
    (last.by \in {"modal", "leaderboard", "teams command"} /\ StoreFailed) =>
       /\ \E i \in 1..Len(last.sends) :
             /\ last.sends[i].to = "user"
             /\ last.sends[i].kind = "error recording"
       /\ \A i \in 1..Len(last.sends) :
             last.sends[i].kind \notin {"leaderboard", "team leaderboards", "success", "new sale"}

\* A sale of the worksheet dated in the window of period p.
SaleInWindow(p) ==
    \E i \in 1..Len(records) : InClaimedWindow(records[i], p, now)

\* C10 as claimed: the daily post sends a message only when a section has an
\* entry.
C10_EmptyDailyPostSkipped ==
    (last.by = "daily" /\ last.sends # <<>>) =>
       \E k \in 1..3 : ~last.sends[1].sections[k].placeholder

\* C10 as amended: the daily post whose read succeeded sends one message of
\* three sections to the posting channel, a section being the placeholder
\* exactly when no sale is dated in its window; it sends nothing only
\* without a posting channel or when the read failed.
C10_DailyPostSentWithPlaceholders ==
    last.by = "daily" =>
       IF posting = "ok" /\ last.outcome = "ok"
       THEN /\ Len(last.sends) = 1
            /\ last.sends[1].to = "posting"
            /\ Len(last.sends[1].sections) = 3
            /\ last.sends[1].sections[1].placeholder = ~SaleInWindow("today")
            /\ last.sends[1].sections[2].placeholder = ~SaleInWindow("week")
            /\ last.sends[1].sections[3].placeholder = ~SaleInWindow("month")
       ELSE last.sends = <<>>

\* C10's case: the worksheet holds a sale, of before this month, and the
\* daily post has sent three placeholders.
C10_Witness ==
    /\ last.by = "daily"
    /\ records # <<>>
    /\ Len(last.sends) = 1
    /\ \A k \in 1..3 : last.sends[1].sections[k].placeholder

\* The kinds of the messages of a step of the sale-entry flow.
SaleKinds(did) ==
    IF did.by = "modal" THEN {did.sends[i].kind : i \in 1..Len(did.sends)} ELSE {}

\* C11: in the sale-entry flow the success message and the announcement are
\* sent in a step that finds the sale's row in the store, appended by an
\* append that succeeded; a premium that is not a number gets its notice
\* only, and no row; a failed append gets the error notice only, and no
\* row; the step of the announcement, delivered or not, sends no error
\* notice and leaves the sale recorded.
C11_SaleAnnouncedAfterAppend ==
    [][ /\ (last' # last /\ SaleKinds(last') \cap {"success", "new sale"} # {}) =>
              /\ last'.outcome = "ok"
              /\ records # <<>>
              /\ records[Len(records)] = SaleRow(now, 1, inter.premium, inter.arg)
              /\ records' = records
        /\ (last' # last /\ "new sale" \in SaleKinds(last')) =>
              /\ "success" \in SaleKinds(last)
              /\ posting = "ok"
        /\ (last' # last /\ "enter a valid number" \in SaleKinds(last')) =>
              /\ records' = records
              /\ SaleKinds(last') = {"enter a valid number"}
              /\ inter'.pc = "done"
        /\ (last' # last /\ last'.by = "modal" /\ last'.outcome \in {"APIError", "OSError"}) =>
              /\ records' = records
              /\ last'.sends = <<Msg("user", "error recording", <<>>)>>
              /\ inter'.pc = "done"
        /\ inter.pc = "announcing" =>
              /\ "error recording" \notin SaleKinds(last')
              /\ records' = records
              /\ records[Len(records)] = SaleRow(now, 1, inter.premium, inter.arg)
      ]_vars

\* C11's case: the posting channel is known, the sale was appended and the
\* success message sent, the announcement was not delivered, and the flow
\* has ended without an error notice.
C11_Witness ==
    /\ last.by = "modal"
    /\ last.outcome = "ok"
    /\ posting = "ok"
    /\ inter.pc = "done"
    /\ last.sends = <<Msg("user", "success", <<>>)>>
    /\ records # <<>>
    /\ records[Len(records)] = SaleRow(now, 1, inter.premium, inter.arg)

====
